---- MODULE Spec2Model ----
(***************************************************************************)
(* Model of assets/drop-countdown.js: the <drop-countdown> and             *)
(* <drop-status> custom elements, the browser's interval table and the     *)
(* wall clock they read with `new Date()` (Spec); the <drop-notify>        *)
(* element and its fetch requests (NotifySpec); and of assets/preloader.js *)
(* with its pending timeouts (PreSpec).                                    *)
(*                                                                         *)
(* Times are milliseconds since the epoch.  A JS Date is modelled by its   *)
(* time value; Null is the JS null and NaN the time value of an            *)
(* "Invalid Date".  A data-* attribute is Absent, Empty (present with the   *)
(* value ""), Unparseable (a non-empty string that Date cannot parse) or   *)
(* the ISO string of an instant, written as the instant itself.  Text      *)
(* contents written by padZero are sequences of decimal digits (<<0, 5>>   *)
(* is "05"); <<>> is a text the script has not written.                    *)
(***************************************************************************)
EXTENDS Integers, Sequences, FiniteSets

\* ---- bounds of the model ----
MaxNow == 3000
MaxTimerId == 3
MaxListeners == 2
MaxSubmitListeners == 2
MaxSubmits == 3
MaxEvents == 2
MaxAdvances == 3
MaxPreTime == 9000
Epoch == 10000

\* ---- values ----
Null == -1
NaN == -2
Absent == -1
Unparseable == -2
Empty == -3
IntervalMs == 1000
minLoadTime == 300
maxLoadTime == 8000
fadeDelay == 100
NumButtonSelectors == 5

ClockSteps == {500, 1000}
StartChoices == {Absent, Empty, Unparseable, 1000, 3000}
EndChoices == {Absent, Empty, Unparseable, 2000, 90063001}

\* the digit slots a drop-countdown's markup can hold, and the markups tried
AllSlots == {"days", "hours", "minutes", "seconds"}
SlotChoices == {AllSlots, {"days", "hours", "minutes"}, {}}

\* ---- JavaScript primitives ----

\* new Date(string): a string that does not parse, "" included, gives an Invalid Date
NewDate(s) == IF s = Unparseable \/ s = Empty THEN NaN ELSE s

\* dataset.x ? new Date(dataset.x) : null; undefined and "" are falsy
ReadDate(attr) == IF attr = Absent \/ attr = Empty THEN Null ELSE NewDate(attr)

\* truthiness of a Date-or-null: every Date object, Invalid Date included, is truthy
Truthy(d) == d # Null

\* a < b on time values: any comparison with NaN is false
Lt(a, b) == a # NaN /\ b # NaN /\ a < b

RECURSIVE toString(_)
toString(n) == IF n < 10 THEN <<n>> ELSE Append(toString(n \div 10), n % 10)

RECURSIVE padStart(_, _, _)
padStart(s, len, c) == IF Len(s) >= len THEN s ELSE padStart(<<c>> \o s, len, c)

padZero(num) == padStart(toString(num), 2, 0)

\* clearInterval(id) on the browser's table of active intervals
clearInterval(tbl, id) == {t \in tbl : t.id # id}

\* ---- DropCountdown ----

\* the element after its constructor, with the given data-* attributes and
\* the digit slots its markup holds; daysEl .. secondsEl say whether the field
\* refers to an element (they are undefined until connectedCallback looks them up)
DropCountdown(dStart, dEnd, slots) ==
    [dataStartDate |-> dStart, dataEndDate |-> dEnd, slots |-> slots,
     startDate |-> Null, endDate |-> Null, intervalId |-> Null,
     connected |-> FALSE,
     daysEl |-> FALSE, hoursEl |-> FALSE, minutesEl |-> FALSE, secondsEl |-> FALSE,
     daysText |-> <<>>, hoursText |-> <<>>, minutesText |-> <<>>, secondsText |-> <<>>,
     endedClass |-> FALSE,
     lastStatus |-> "none", lastNow |-> -1]

\* getStatus with the start boundary compared by <= : still upcoming at now = start
getStatus_inclusiveStart(w, t) ==
    IF Truthy(w.startDate) /\ w.startDate # NaN /\ t <= w.startDate THEN "upcoming"
    ELSE IF Truthy(w.endDate) /\ Lt(t, w.endDate) THEN "live"
    ELSE "ended"

\* getStatus with the two tests in the other order: the end is looked at first
getStatus_endFirst(w, t) ==
    IF Truthy(w.endDate) /\ Lt(t, w.endDate) THEN "live"
    ELSE IF Truthy(w.startDate) /\ Lt(t, w.startDate) THEN "upcoming"
    ELSE "ended"

getStatus(w, t) ==
    IF Truthy(w.startDate) /\ Lt(t, w.startDate) THEN "upcoming"
    ELSE IF Truthy(w.endDate) /\ Lt(t, w.endDate) THEN "live"
    ELSE "ended"

\* animateValue writes only when the text differs, so the result is the new text
animateValue(text, newValue) == IF text # newValue THEN newValue ELSE text

setValues(w, days, hours, minutes, seconds) ==
    [w EXCEPT !.daysText = IF w.daysEl THEN animateValue(@, padZero(days)) ELSE @,
              !.hoursText = IF w.hoursEl THEN animateValue(@, padZero(hours)) ELSE @,
              !.minutesText = IF w.minutesEl THEN animateValue(@, padZero(minutes)) ELSE @,
              !.secondsText = IF w.secondsEl THEN animateValue(@, padZero(seconds)) ELSE @]

\* showEnded that toggles the ended class instead of adding it
showEnded_toggleClass(w, tbl) ==
    LET w1 == IF w.intervalId # Null THEN [w EXCEPT !.intervalId = Null] ELSE w
        tbl1 == IF w.intervalId # Null THEN clearInterval(tbl, w.intervalId) ELSE tbl
    IN [w |-> setValues([w1 EXCEPT !.endedClass = ~w.endedClass], 0, 0, 0, 0),
        tbl |-> tbl1, ev |-> <<>>]

showEnded(w, tbl) ==
    LET w1 == IF w.intervalId # Null THEN [w EXCEPT !.intervalId = Null] ELSE w
        tbl1 == IF w.intervalId # Null THEN clearInterval(tbl, w.intervalId) ELSE tbl
    IN [w |-> setValues([w1 EXCEPT !.endedClass = TRUE], 0, 0, 0, 0),
        tbl |-> tbl1, ev |-> <<>>]

\* update whose hours are not reduced modulo one day
update_hoursNotWrapped(w, tbl, t) ==
    LET status == getStatus(w, t)
        w0 == [w EXCEPT !.lastStatus = status, !.lastNow = t]
        targetDate == IF status = "upcoming" THEN w.startDate ELSE w.endDate
        diff == targetDate - t
    IN IF status = "ended" THEN showEnded(w0, tbl)
       ELSE IF ~Truthy(targetDate) THEN showEnded(w0, tbl)
       ELSE IF diff <= 0
            THEN [w |-> w0, tbl |-> tbl,
                  ev |-> <<IF status = "upcoming" THEN "live" ELSE "ended">>]
       ELSE [w |-> setValues(w0, diff \div 86400000,
                                 diff \div 3600000,
                                 (diff % 3600000) \div 60000,
                                 (diff % 60000) \div 1000),
             tbl |-> tbl, ev |-> <<>>]

\* getStatus returns "upcoming" or "live" only when Lt held against the target,
\* so a truthy targetDate is a valid instant here and diff is a number
update(w, tbl, t) ==
    LET status == getStatus(w, t)
        w0 == [w EXCEPT !.lastStatus = status, !.lastNow = t]
        targetDate == IF status = "upcoming" THEN w.startDate ELSE w.endDate
        diff == targetDate - t
    IN IF status = "ended" THEN showEnded(w0, tbl)
       ELSE IF ~Truthy(targetDate) THEN showEnded(w0, tbl)
       ELSE IF diff <= 0
            THEN [w |-> w0, tbl |-> tbl,
                  ev |-> <<IF status = "upcoming" THEN "live" ELSE "ended">>]
       ELSE [w |-> setValues(w0, diff \div 86400000,
                                 (diff % 86400000) \div 3600000,
                                 (diff % 3600000) \div 60000,
                                 (diff % 60000) \div 1000),
             tbl |-> tbl, ev |-> <<>>]

\* the four querySelector calls: a field refers to its slot if the markup has it
querySlots(w) ==
    [w EXCEPT !.daysEl = "days" \in w.slots, !.hoursEl = "hours" \in w.slots,
              !.minutesEl = "minutes" \in w.slots, !.secondsEl = "seconds" \in w.slots]

\* connectedCallback that keeps the interval of an earlier attachment running:
\* a handle left by the previous attachment is reused instead of a new one
connectedCallback_keepsHandle(w, tbl, t, id, owner) ==
    LET w1 == [w EXCEPT !.startDate = ReadDate(w.dataStartDate),
                        !.endDate = ReadDate(w.dataEndDate),
                        !.connected = TRUE]
    IN IF ~Truthy(w1.startDate) /\ ~Truthy(w1.endDate)
       THEN [w |-> w1, tbl |-> tbl, ev |-> <<>>]
       ELSE LET r == update(querySlots(w1), tbl, t)
            IN [w |-> [r.w EXCEPT !.intervalId = IF w.intervalId # Null THEN w.intervalId ELSE id],
                tbl |-> r.tbl \cup {[id |-> id, owner |-> owner, due |-> t + IntervalMs]},
                ev |-> r.ev]

\* connectedCallback without the early return for an unconfigured element
connectedCallback_noEarlyReturn(w, tbl, t, id, owner) ==
    LET w1 == [w EXCEPT !.startDate = ReadDate(w.dataStartDate),
                        !.endDate = ReadDate(w.dataEndDate),
                        !.connected = TRUE]
        r == update(querySlots(w1), tbl, t)
    IN [w |-> [r.w EXCEPT !.intervalId = id],
        tbl |-> r.tbl \cup {[id |-> id, owner |-> owner, due |-> t + IntervalMs]},
        ev |-> r.ev]

\* owner names the element in the interval table; id is the handle setInterval returns
connectedCallback(w, tbl, t, id, owner) ==
    LET w1 == [w EXCEPT !.startDate = ReadDate(w.dataStartDate),
                        !.endDate = ReadDate(w.dataEndDate),
                        !.connected = TRUE]
    IN IF ~Truthy(w1.startDate) /\ ~Truthy(w1.endDate)
       THEN [w |-> w1, tbl |-> tbl, ev |-> <<>>]
       ELSE LET r == update(querySlots(w1), tbl, t)
            IN [w |-> [r.w EXCEPT !.intervalId = id],
                tbl |-> r.tbl \cup {[id |-> id, owner |-> owner, due |-> t + IntervalMs]},
                ev |-> r.ev]

\* disconnectedCallback that forgets to cancel the interval
disconnectedCallback_noClear(w, tbl) ==
    [w |-> [w EXCEPT !.connected = FALSE], tbl |-> tbl, ev |-> <<>>]

disconnectedCallback(w, tbl) ==
    [w |-> [w EXCEPT !.connected = FALSE],
     tbl |-> IF w.intervalId # Null THEN clearInterval(tbl, w.intervalId) ELSE tbl,
     ev |-> <<>>]

\* ---- DropStatus ----

\* the element after its constructor
DropStatus(dStart, dEnd) ==
    [dataStartDate |-> dStart, dataEndDate |-> dEnd,
     startDate |-> Null, endDate |-> Null,
     connected |-> FALSE, dataStatus |-> "none", lastNow |-> -1]

\* .drop-status, .drop-add-button and .drop-notify as the page's markup leaves them
InitPage ==
    [badgeClass |-> "drop-status", badgeText |-> "",
     addDisabled |-> FALSE, addDisabledClass |-> FALSE, addText |-> "",
     notifyDisplay |-> ""]

\* textMap with the labels of upcoming and ended exchanged
textMap_swapped(status) ==
    CASE status = "upcoming" -> "Drop Ended"
      [] status = "live" -> "Drop Live"
      [] OTHER -> "Coming Soon"

textMap(status) ==
    CASE status = "upcoming" -> "Coming Soon"
      [] status = "live" -> "Drop Live"
      [] OTHER -> "Drop Ended"

updateStatus(d, pg, t) ==
    LET status == IF Truthy(d.startDate) /\ Lt(t, d.startDate) THEN "upcoming"
                  ELSE IF Truthy(d.endDate) /\ Lt(t, d.endDate) THEN "live"
                  ELSE "ended"
    IN [d |-> [d EXCEPT !.dataStatus = status, !.lastNow = t],
        pg |-> [badgeClass |-> IF status = "upcoming" THEN "drop-status drop-status--upcoming"
                               ELSE IF status = "live" THEN "drop-status drop-status--live"
                               ELSE "drop-status drop-status--ended",
                badgeText |-> textMap(status),
                addDisabled |-> status # "live",
                addDisabledClass |-> status # "live",
                addText |-> IF status = "live" THEN "Add to Cart"
                            ELSE IF status = "upcoming" THEN "Coming Soon" ELSE "Sold Out",
                notifyDisplay |-> IF status = "live" THEN "none" ELSE "flex"]]

\* DropStatus.connectedCallback; the document listener it adds is counted by the caller
dsConnectedCallback(d, pg, t) ==
    updateStatus([d EXCEPT !.startDate = ReadDate(d.dataStartDate),
                           !.endDate = ReadDate(d.dataEndDate),
                           !.connected = TRUE], pg, t)

\* document listeners of drop-status-change: each one calls updateStatus
deliver(d, pg, ev, n, t) ==
    IF Len(ev) > 0 /\ n > 0 THEN updateStatus(d, pg, t) ELSE [d |-> d, pg |-> pg]

\* ---- DropNotify ----

ButtonLabels == {"Notify Me", "Subscribe"}
Emails == {"", "a@b.com"}

\* the element after its constructor, with the children its markup has:
\* hasForm, hasInput, hasButton, hasSuccess say which of form, input[type=email],
\* button[type=submit] and .drop-notify__success exist; label is the button's text.
\* submitListeners counts the submit listeners on the form, inflight the fetches
\* awaiting an answer; submits, sent, outcome, lastEmail and threw record what happened
DropNotify(hasForm, hasInput, hasButton, hasSuccess, label) ==
    [hasForm |-> hasForm, hasInput |-> hasInput,
     hasButton |-> hasButton, hasSuccess |-> hasSuccess,
     origLabel |-> label,
     connected |-> FALSE, submitListeners |-> 0,
     btnDisabled |-> FALSE, btnText |-> label,
     formDisplay |-> "", successDisplay |-> "",
     inflight |-> 0, submits |-> 0, sent |-> 0,
     outcome |-> "none", lastEmail |-> "", threw |-> FALSE]

\* DropNotify.connectedCallback: one more submit listener if there is a form
notifyConnectedCallback(n) ==
    [n EXCEPT !.connected = TRUE,
              !.submitListeners = IF n.hasForm THEN @ + 1 ELSE @]

\* handleSubmit up to its await: this.input?.value is undefined without an input;
\* this.button.disabled throws a TypeError when there is no button
handleSubmit(n, value) ==
    LET email == IF n.hasInput THEN value ELSE ""
    IN IF email = "" THEN n
       ELSE IF ~n.hasButton THEN [n EXCEPT !.threw = TRUE]
       ELSE [n EXCEPT !.btnDisabled = TRUE, !.btnText = "Submitting...",
                      !.inflight = @ + 1, !.sent = @ + 1, !.outcome = "pending"]

\* a submit event runs every submit listener of the form in turn
RECURSIVE dispatchSubmit(_, _, _)
dispatchSubmit(n, value, k) ==
    IF k = 0 THEN n ELSE dispatchSubmit(handleSubmit(n, value), value, k - 1)

\* handleSubmit after the await, fetch fulfilled
fetchFulfilled(n) ==
    [n EXCEPT !.formDisplay = IF n.hasForm THEN "none" ELSE @,
              !.successDisplay = IF n.hasSuccess THEN "flex" ELSE @,
              !.inflight = @ - 1, !.outcome = "fulfilled"]

\* handleSubmit's catch block, fetch rejected
fetchRejected(n) ==
    [n EXCEPT !.btnDisabled = FALSE, !.btnText = "Notify Me",
              !.inflight = @ - 1, !.outcome = "rejected"]

\* ---- preloader.js ----

PreSteps == {50, 500}

\* how many of the buttonSelectors a clicked button matches
SelectorsMatched == {1, 2, NumButtonSelectors}

Max(a, b) == IF a >= b THEN a ELSE b

\* the script's state when it is loaded: hasEl says whether the page has
\* #store-preloader, which the markup shows (no hidden class) while the page
\* loads.  timeouts is the browser's table of pending timeouts set by this script;
\* shows, hideCalls and advances count events (one click is one show); pending holds the instants of
\* the button and form shows that no hide has followed yet, shownByCall says
\* that the visible indicator was shown by showPreloader, hiddenAfter is the
\* longest a button or form show has waited for its hide, lastEvent names the
\* last page event the script handled
Preloader(hasEl) ==
    [hasEl |-> hasEl, preloaderEl |-> FALSE, ready |-> FALSE, loaded |-> FALSE,
     showTime |-> 0, hidden |-> FALSE, overflow |-> "",
     timeouts |-> {}, nextId |-> 1,
     shows |-> 0, hideCalls |-> 0, advances |-> 0,
     pending |-> {}, hiddenAfter |-> 0, shownByCall |-> FALSE, lastEvent |-> "none"]

setTimeout(p, fn, due) ==
    [p EXCEPT !.timeouts = @ \cup {[id |-> p.nextId, fn |-> fn, due |-> due]},
              !.nextId = @ + 1]

showPreloader(p, t) ==
    IF ~p.preloaderEl THEN p
    ELSE [p EXCEPT !.showTime = t, !.hidden = FALSE, !.overflow = "hidden",
                   !.shownByCall = TRUE]

\* hidePreloader with the operands of the subtraction exchanged
hidePreloader_swapped(p, t) ==
    IF ~p.preloaderEl THEN p
    ELSE LET elapsed == t - p.showTime
             remaining == Max(0, elapsed - minLoadTime)
         IN setTimeout(p, "hide", t + remaining + fadeDelay)

hidePreloader(p, t) ==
    IF ~p.preloaderEl THEN p
    ELSE LET elapsed == t - p.showTime
             remaining == Max(0, minLoadTime - elapsed)
         IN setTimeout(p, "hide", t + remaining + fadeDelay)

\* the function hidePreloader hands to setTimeout
hideNow(p, t) ==
    [p EXCEPT !.hidden = TRUE, !.overflow = "", !.pending = {}, !.shownByCall = FALSE,
              !.hiddenAfter = IF \E u \in p.pending : t - u > @
                              THEN t - (CHOOSE u \in p.pending : \A v \in p.pending : u <= v)
                              ELSE @]

\* init(), run at DOMContentLoaded
init(p, t) ==
    LET p1 == [p EXCEPT !.preloaderEl = p.hasEl, !.ready = TRUE]
    IN IF ~p1.preloaderEl THEN p1 ELSE hidePreloader(p1, t)

\* click listener of a submit button or [data-preloader] button, and the
\* submit listener of a form: show, then auto-hide after maxLoadTime
showWithFallback(p, t) ==
    LET p1 == showPreloader(p, t)
        p2 == setTimeout(p1, "hidePreloader", t + maxLoadTime)
    IN [p2 EXCEPT !.pending = IF p.preloaderEl THEN @ \cup {t} ELSE @]

\* a click event runs every click listener of the button in turn
RECURSIVE dispatchClick(_, _, _)
dispatchClick(p, t, k) ==
    IF k = 0 THEN p ELSE dispatchClick(showWithFallback(p, t), t, k - 1)

\* ---- the page ----

VARIABLES now, cd, intervals, nextTimerId, ds, page, listeners, emitted, notify, pre

vars == <<now, cd, intervals, nextTimerId, ds, page, listeners, emitted, notify, pre>>

\* the drop-countdown and the drop-status of a page carry the same drop window
Init ==
    /\ now = 0
    /\ \E dStart \in StartChoices, dEnd \in EndChoices, slots \in SlotChoices :
          /\ cd = DropCountdown(dStart, dEnd, slots)
          /\ ds = DropStatus(dStart, dEnd)
    /\ intervals = {}
    /\ nextTimerId = 1
    /\ page = InitPage
    /\ listeners = 0
    /\ emitted = <<>>
    /\ notify = DropNotify(TRUE, TRUE, TRUE, TRUE, "Notify Me")
    /\ pre = Preloader(TRUE)

\* the wall clock moves forward
AdvanceClock ==
    /\ \E d \in ClockSteps : now + d <= MaxNow /\ now' = now + d
    /\ UNCHANGED <<cd, intervals, nextTimerId, ds, page, listeners, emitted, notify, pre>>

\* the drop-countdown is inserted into the document; a handle is used up only
\* when connectedCallback reaches its setInterval
Attach ==
    /\ ~cd.connected
    /\ nextTimerId <= MaxTimerId
    /\ LET r == connectedCallback(cd, intervals, now, nextTimerId, "cd")
           r3 == deliver(ds, page, r.ev, listeners, now)
       IN /\ cd' = r.w
          /\ intervals' = r.tbl
          /\ nextTimerId' = IF r.w.intervalId = nextTimerId THEN nextTimerId + 1
                             ELSE nextTimerId
          /\ emitted' = emitted \o r.ev
          /\ ds' = r3.d
          /\ page' = r3.pg
    /\ UNCHANGED <<now, listeners, notify, pre>>

\* the drop-countdown is removed from the document
Detach ==
    /\ cd.connected
    /\ LET r == disconnectedCallback(cd, intervals)
       IN /\ cd' = r.w
          /\ intervals' = r.tbl
    /\ UNCHANGED <<now, nextTimerId, ds, page, listeners, emitted, notify, pre>>

\* the interval callback of one element, if its interval is active and due;
\* an interval that survives its callback is due again IntervalMs later
fire(w, tbl, owner, t) ==
    IF \E x \in tbl : x.owner = owner /\ x.due <= t
    THEN LET r == update(w, tbl, t)
         IN [w |-> r.w,
             tbl |-> {IF x.owner = owner /\ x.due <= t
                      THEN [x EXCEPT !.due = t + IntervalMs] ELSE x : x \in r.tbl},
             ev |-> r.ev]
    ELSE [w |-> w, tbl |-> tbl, ev |-> <<>>]

\* one timer task of the event loop: the callback of one interval that is due,
\* and the listeners of the event it dispatches
Tick ==
    /\ \E x \in intervals :
          /\ x.due <= now
          /\ LET r == fire(cd, intervals, x.owner, now)
                 r3 == deliver(ds, page, r.ev, listeners, now)
             IN /\ cd' = r.w
                /\ intervals' = r.tbl
                /\ emitted' = emitted \o r.ev
                /\ ds' = r3.d
                /\ page' = r3.pg
    /\ UNCHANGED <<now, nextTimerId, listeners, notify, pre>>

\* DropStatus.connectedCallback: refresh, then one more document listener
DsAttach ==
    /\ ~ds.connected
    /\ listeners < MaxListeners
    /\ LET r == dsConnectedCallback(ds, page, now)
       IN ds' = r.d /\ page' = r.pg
    /\ listeners' = listeners + 1
    /\ UNCHANGED <<now, cd, intervals, nextTimerId, emitted, notify, pre>>

\* DropStatus has no disconnectedCallback: the element leaves, its listener stays
DsDetach ==
    /\ ds.connected
    /\ ds' = [ds EXCEPT !.connected = FALSE]
    /\ UNCHANGED <<now, cd, intervals, nextTimerId, page, listeners, emitted, notify, pre>>

Next == AdvanceClock \/ Attach \/ Detach \/ Tick \/ DsAttach \/ DsDetach

Spec == Init /\ [][Next]_vars

TypeOK ==
    /\ now \in 0..MaxNow
    /\ cd.lastStatus \in {"none", "upcoming", "live", "ended"}
    /\ ds.dataStatus \in {"none", "upcoming", "live", "ended"}
    /\ \A x \in intervals : x.id < nextTimerId

\* ---- a page with a drop-notify ----

countdownVars == <<now, cd, intervals, nextTimerId, ds, page, listeners, emitted, pre>>

NotifyInit ==
    /\ now = 0
    /\ cd = DropCountdown(Absent, Absent, AllSlots)
    /\ ds = DropStatus(Absent, Absent)
    /\ intervals = {}
    /\ nextTimerId = 1
    /\ page = InitPage
    /\ listeners = 0
    /\ emitted = <<>>
    /\ \E hasForm, hasInput, hasButton, hasSuccess \in BOOLEAN, label \in ButtonLabels :
          notify = DropNotify(hasForm, hasInput, hasButton, hasSuccess, label)
    /\ pre = Preloader(TRUE)

\* the drop-notify element is inserted into the document
NotifyAttach ==
    /\ ~notify.connected
    /\ notify.submitListeners < MaxSubmitListeners
    /\ notify' = notifyConnectedCallback(notify)
    /\ UNCHANGED countdownVars

\* DropNotify has no disconnectedCallback: the element leaves, its listeners stay
NotifyDetach ==
    /\ notify.connected
    /\ notify' = [notify EXCEPT !.connected = FALSE]
    /\ UNCHANGED countdownVars

\* the user submits the form: it is in the document and displayed, and its
\* submit button, if it has one, is not disabled
Submit ==
    /\ notify.connected /\ notify.hasForm
    /\ notify.formDisplay # "none"
    /\ notify.hasButton => ~notify.btnDisabled
    /\ notify.submits < MaxSubmits
    /\ \E value \in Emails :
          notify' = [dispatchSubmit(notify, value, notify.submitListeners)
                       EXCEPT !.submits = @ + 1,
                              !.lastEmail = IF notify.hasInput THEN value ELSE ""]
    /\ UNCHANGED countdownVars

\* the transport answers one request
FetchFulfilled ==
    /\ notify.inflight > 0
    /\ notify' = fetchFulfilled(notify)
    /\ UNCHANGED countdownVars

\* the transport fails one request
FetchRejected ==
    /\ notify.inflight > 0
    /\ notify' = fetchRejected(notify)
    /\ UNCHANGED countdownVars

NotifyNext == NotifyAttach \/ NotifyDetach \/ Submit \/ FetchFulfilled \/ FetchRejected

NotifySpec == NotifyInit /\ [][NotifyNext]_vars

\* ---- a page with the preloader script ----

widgetVars == <<cd, intervals, nextTimerId, ds, page, listeners, emitted, notify>>

\* Date.now() is far from 0, the initial showTime
PreInit ==
    /\ now = Epoch
    /\ cd = DropCountdown(Absent, Absent, AllSlots)
    /\ ds = DropStatus(Absent, Absent)
    /\ intervals = {}
    /\ nextTimerId = 1
    /\ page = InitPage
    /\ listeners = 0
    /\ emitted = <<>>
    /\ notify = DropNotify(TRUE, TRUE, TRUE, TRUE, "Notify Me")
    /\ \E hasEl \in BOOLEAN : pre = Preloader(hasEl)

\* DOMContentLoaded (or the script running after it): init()
DomReady ==
    /\ ~pre.ready
    /\ pre' = [init(pre, now) EXCEPT !.lastEvent = "DOMContentLoaded"]
    /\ UNCHANGED <<now, widgetVars>>

\* the window's load event
WindowLoad ==
    /\ pre.ready /\ ~pre.loaded
    /\ pre' = [hidePreloader(pre, now) EXCEPT !.loaded = TRUE, !.lastEvent = "load"]
    /\ UNCHANGED <<now, widgetVars>>

\* pageshow with event.persisted; its listener exists once init found the element
PageShow ==
    /\ pre.preloaderEl
    /\ pre.shows + pre.hideCalls < MaxEvents
    /\ pre' = [hidePreloader(pre, now) EXCEPT !.hideCalls = @ + 1, !.lastEvent = "pageshow"]
    /\ UNCHANGED <<now, widgetVars>>

\* window.StorePreloader.hide()
ManualHide ==
    /\ pre.shows + pre.hideCalls < MaxEvents
    /\ pre' = [hidePreloader(pre, now) EXCEPT !.hideCalls = @ + 1, !.lastEvent = "hide"]
    /\ UNCHANGED <<now, widgetVars>>

\* window.StorePreloader.show()
ManualShow ==
    /\ pre.shows + pre.hideCalls < MaxEvents
    /\ pre' = [showPreloader(pre, now) EXCEPT !.shows = @ + 1, !.lastEvent = "show"]
    /\ UNCHANGED <<now, widgetVars>>

\* click on an internal link, no modifier key
LinkClick ==
    /\ pre.preloaderEl
    /\ pre.shows + pre.hideCalls < MaxEvents
    /\ pre' = [showPreloader(pre, now) EXCEPT !.shows = @ + 1, !.lastEvent = "link"]
    /\ UNCHANGED <<now, widgetVars>>

\* one click on a submit button or a [data-preloader] button: the button has
\* one click listener for each of the buttonSelectors it matched, k of them,
\* and the click runs them all
ButtonClick ==
    /\ pre.preloaderEl
    /\ pre.shows + pre.hideCalls < MaxEvents
    /\ \E k \in SelectorsMatched :
          pre' = [dispatchClick(pre, now, k) EXCEPT !.shows = @ + 1, !.lastEvent = "button"]
    /\ UNCHANGED <<now, widgetVars>>

\* submit event of a form, default not prevented
FormSubmit ==
    /\ pre.preloaderEl
    /\ pre.shows + pre.hideCalls < MaxEvents
    /\ pre' = [showWithFallback(pre, now) EXCEPT !.shows = @ + 1, !.lastEvent = "form"]
    /\ UNCHANGED <<now, widgetVars>>

\* a timeout that is due runs its function; the clock never passes a pending
\* timeout, so the timeouts that are due were due at the same instant, and the
\* browser runs them in the order they were set
TimeoutFire ==
    /\ \E x \in pre.timeouts :
          /\ x.due <= now
          /\ \A y \in pre.timeouts : y.due <= now => x.id <= y.id
          /\ LET p1 == [pre EXCEPT !.timeouts = @ \ {x}]
             IN pre' = IF x.fn = "hide" THEN hideNow(p1, now) ELSE hidePreloader(p1, now)
    /\ UNCHANGED <<now, widgetVars>>

\* time passes, but not beyond the next timeout that is due
PreAdvance ==
    /\ pre.advances < MaxAdvances
    /\ \E d \in PreSteps \cup {x.due - now : x \in pre.timeouts} :
          /\ d > 0
          /\ now + d <= Epoch + MaxPreTime
          /\ \A x \in pre.timeouts : now + d <= x.due
          /\ now' = now + d
    /\ pre' = [pre EXCEPT !.advances = @ + 1]
    /\ UNCHANGED widgetVars

PreNext ==
    \/ DomReady \/ WindowLoad \/ PageShow \/ ManualHide \/ ManualShow
    \/ LinkClick \/ ButtonClick \/ FormSubmit \/ TimeoutFire \/ PreAdvance

PreSpec == PreInit /\ [][PreNext]_vars

\* ---- the drop window as the claims speak of it ----

IsInstant(attr) == attr # Absent /\ attr # Unparseable /\ attr # Empty
NotSet(attr) == attr = Absent \/ attr = Empty
\* the attribute as it would be written had a value that does not parse been left out
Omit(attr) == IF attr = Unparseable \/ attr = Empty THEN Absent ELSE attr
Configured(attr) == attr = Absent \/ IsInstant(attr)
Rank(status) ==
    CASE status = "none" -> 0
      [] status = "upcoming" -> 1
      [] status = "live" -> 2
      [] OTHER -> 3
ActiveOf(owner) == {x \in intervals : x.owner = owner}
Zero == <<0, 0>>

\* C1: for a window whose start and end are each absent or a timestamp, the
\* status DropCountdown.getStatus and DropStatus.updateStatus computed at the
\* instant they read is one of upcoming / live / ended and is upcoming if start
\* is present and now < start, otherwise live if end is present and now < end,
\* otherwise ended.
StatusRule(t, s, e) ==
    CASE IsInstant(s) /\ t < s -> "upcoming"
      [] ~(IsInstant(s) /\ t < s) /\ IsInstant(e) /\ t < e -> "live"
      [] OTHER -> "ended"
C1_StatusRule ==
    (Configured(cd.dataStartDate) /\ Configured(cd.dataEndDate)) =>
        /\ cd.lastNow >= 0 =>
              /\ cd.lastStatus \in {"upcoming", "live", "ended"}
              /\ cd.lastStatus = StatusRule(cd.lastNow, cd.dataStartDate, cd.dataEndDate)
        /\ ds.lastNow >= 0 =>
              /\ ds.dataStatus \in {"upcoming", "live", "ended"}
              /\ ds.dataStatus = StatusRule(ds.lastNow, ds.dataStartDate, ds.dataEndDate)
C1_Witness ==
    /\ IsInstant(cd.dataStartDate) /\ IsInstant(cd.dataEndDate)
    /\ cd.lastNow = cd.dataStartDate /\ cd.lastStatus = "live"
    /\ ds.lastNow >= 0 /\ ds.lastNow < ds.dataStartDate /\ ds.dataStatus = "upcoming"

\* C2: with a start timestamp, the status is upcoming while now < start, live
\* once now >= start whenever the end is absent or still in the future, and it
\* is ended only when an end exists and now >= end.
C2_AbsentEndNeverEnds ==
    (IsInstant(cd.dataStartDate) /\ Configured(cd.dataEndDate) /\ cd.lastNow >= 0) =>
        /\ cd.lastNow < cd.dataStartDate => cd.lastStatus = "upcoming"
        /\ (cd.lastNow >= cd.dataStartDate
              /\ (cd.dataEndDate = Absent \/ cd.lastNow < cd.dataEndDate))
             => cd.lastStatus = "live"
        /\ cd.lastStatus = "ended" =>
             (IsInstant(cd.dataEndDate) /\ cd.lastNow >= cd.dataEndDate)

\* C3: for the fixed window of an element, the status at a later instant is
\* never earlier in upcoming < live < ended than the status at an earlier one,
\* and the status observed by successive updates and refreshes never moves back.
Instants == {t \in 0..(MaxNow + 1000) : t % 500 = 0}
C3_Monotonic ==
    /\ [](\A t1, t2 \in Instants :
            t1 <= t2 => Rank(getStatus(cd, t1)) <= Rank(getStatus(cd, t2)))
    /\ [][/\ Rank(cd.lastStatus) <= Rank(cd'.lastStatus)
          /\ Rank(ds.dataStatus) <= Rank(ds'.dataStatus)]_vars
C3_Witness ==
    /\ cd.connected /\ IsInstant(cd.dataStartDate) /\ IsInstant(cd.dataEndDate)
    /\ cd.dataEndDate < cd.dataStartDate
    /\ cd.lastStatus = "ended" /\ ds.dataStatus = "upcoming"

\* C4: when a running countdown's target instant is reached (it was upcoming
\* and now has passed start, or live and now has passed end), the tick emits one
\* drop-status-change notification carrying the next status: live after
\* upcoming, ended after live.
TargetReached ==
    /\ cd.connected /\ cd'.connected
    /\ cd.lastStatus \in {"upcoming", "live"}
    /\ cd'.lastNow > cd.lastNow
    /\ cd'.lastStatus # cd.lastStatus
C4_EmitsOnExpiry ==
    [][TargetReached =>
         emitted' = Append(emitted, IF cd.lastStatus = "upcoming" THEN "live" ELSE "ended")]_vars

\* C5: with a drop-countdown and a drop-status attached for the same window,
\* the tick that finds a status boundary crossed leaves the drop-status
\* refreshed: its data-status, badge, button and notify panel show the status
\* of the current instant, not the one computed when it was attached.
C5_StatusRefreshed ==
    [][(TargetReached /\ ds.connected /\ listeners > 0) =>
         /\ ds'.dataStatus = cd'.lastStatus
         /\ page'.badgeText = textMap(cd'.lastStatus)
         /\ page'.addDisabled = (cd'.lastStatus # "live")
         /\ page'.notifyDisplay = (IF cd'.lastStatus = "live" THEN "none" ELSE "flex")]_vars

\* C6: for a window with an end timestamp, once the status seen by the
\* countdown is ended (at attach time or later), no recurring tick of the
\* element is active and every field the markup holds shows zero.
SlotsZero(w) ==
    /\ "days" \in w.slots => w.daysText = Zero
    /\ "hours" \in w.slots => w.hoursText = Zero
    /\ "minutes" \in w.slots => w.minutesText = Zero
    /\ "seconds" \in w.slots => w.secondsText = Zero
C6_EndedMeansStopped ==
    (Configured(cd.dataStartDate) /\ IsInstant(cd.dataEndDate) /\ cd.lastStatus = "ended") =>
        /\ ActiveOf("cd") = {}
        /\ SlotsZero(cd)

\* C7: while a drop-countdown is detached none of its intervals is active, so
\* no tick runs, renders or emits until it is attached again, in every order
\* of detaching and reaching ended.
C7_DetachCancels ==
    /\ [](~cd.connected => ActiveOf("cd") = {})
    /\ [][(~cd.connected /\ ~cd'.connected) => (cd' = cd /\ emitted' = emitted)]_vars
C7_Witness ==
    /\ ~cd.connected
    /\ cd.lastStatus = "ended"
    /\ cd.intervalId # Null /\ cd.intervalId > 1
    /\ now > cd.lastNow + IntervalMs

\* C8: a drop-countdown with neither data-start-date nor data-end-date set
\* (absent or empty) is inert: attaching it schedules no interval, leaves the
\* four fields as the markup had them, does not add drop-countdown--ended and
\* emits nothing.
C8_Inert ==
    (NotSet(cd.dataStartDate) /\ NotSet(cd.dataEndDate)) =>
        /\ ActiveOf("cd") = {} /\ cd.intervalId = Null
        /\ cd.daysText = <<>> /\ cd.hoursText = <<>>
        /\ cd.minutesText = <<>> /\ cd.secondsText = <<>>
        /\ ~cd.endedClass
        /\ emitted = <<>>
C8_Witness ==
    /\ cd.dataStartDate = Absent /\ cd.dataEndDate = Absent
    /\ cd.connected /\ now >= 2 * IntervalMs

\* C9: an unparseable timestamp is treated as an absent one: every attach and
\* every tick leaves the element looking in every respect (attached, tick
\* scheduled, the four fields, the ended class, the events, the status of the
\* current instant) as it leaves the same element whose markup leaves that
\* timestamp out.
Observable(w, tbl) ==
    [connected |-> w.connected,
     ticking |-> {x \in tbl : x.owner = "cd"} # {},
     fields |-> <<w.daysText, w.hoursText, w.minutesText, w.secondsText>>,
     endedClass |-> w.endedClass,
     status |-> getStatus(w, now)]
Omitted(w) ==
    [w EXCEPT !.dataStartDate = Omit(@), !.dataEndDate = Omit(@),
              !.startDate = IF w.dataStartDate = Unparseable THEN Null ELSE @,
              !.endDate = IF w.dataEndDate = Unparseable THEN Null ELSE @]
C9_UnparseableAsAbsent ==
    [][/\ (~cd.connected /\ cd'.connected) =>
             LET r == connectedCallback(Omitted(cd), intervals, now, nextTimerId, "cd")
             IN /\ Observable(cd', intervals') = Observable(r.w, r.tbl)
                /\ emitted' = emitted \o r.ev
       /\ (cd.connected /\ cd'.connected /\ cd' # cd) =>
             LET r == update(Omitted(cd), intervals, now)
             IN /\ Observable(cd', intervals') = Observable(r.w, r.tbl)
                /\ emitted' = emitted \o r.ev]_vars

\* C10: after a refresh of drop-status, data-status is the status it computed,
\* the badge reads Coming Soon / Drop Live / Drop Ended, the add button is
\* enabled exactly when live and reads Coming Soon or Sold Out when disabled,
\* and the notify panel is displayed exactly when not live.
C10_Presentation ==
    ds.lastNow >= 0 =>
        /\ ds.dataStatus = StatusRule(ds.lastNow, Omit(ds.dataStartDate), Omit(ds.dataEndDate))
        /\ ds.dataStatus = "upcoming" =>
              /\ page.badgeText = "Coming Soon"
              /\ page.addDisabled /\ page.addText = "Coming Soon"
              /\ page.notifyDisplay = "flex"
        /\ ds.dataStatus = "live" =>
              /\ page.badgeText = "Drop Live"
              /\ ~page.addDisabled
              /\ page.notifyDisplay = "none"
        /\ ds.dataStatus = "ended" =>
              /\ page.badgeText = "Drop Ended"
              /\ page.addDisabled /\ page.addText = "Sold Out"
              /\ page.notifyDisplay = "flex"
C10_Witness ==
    /\ ds.connected /\ listeners = 2
    /\ ds.dataStatus = "live" /\ page.addText = "Add to Cart"

\* C15: a tick that renders has the start as target while upcoming and the end
\* while live, the target lies ahead (diff > 0), and the four values shown are
\* the floor decomposition of diff: days >= 0, hours in 0..23, minutes and
\* seconds in 0..59, and their sum in ms is <= diff and > diff - 1000
\* (90061001 ms shows 01 01 01 01); no shown text holds a negative number.
\* A value whose slot the markup lacks is not shown and is taken from diff.
RECURSIVE Value(_)
Value(text) ==
    IF Len(text) = 0 THEN 0
    ELSE 10 * Value(SubSeq(text, 1, Len(text) - 1)) + text[Len(text)]
IsNumeral(text) == Len(text) >= 2 /\ \A i \in 1..Len(text) : text[i] \in 0..9
C15_Decomposition ==
    cd.lastStatus \in {"upcoming", "live"} =>
        LET target == IF cd.lastStatus = "upcoming" THEN cd.dataStartDate ELSE cd.dataEndDate
            diff == target - cd.lastNow
            days == IF cd.daysEl THEN Value(cd.daysText) ELSE diff \div 86400000
            hours == IF cd.hoursEl THEN Value(cd.hoursText) ELSE (diff % 86400000) \div 3600000
            minutes == IF cd.minutesEl THEN Value(cd.minutesText) ELSE (diff % 3600000) \div 60000
            seconds == IF cd.secondsEl THEN Value(cd.secondsText) ELSE (diff % 60000) \div 1000
            shown == days * 86400000 + hours * 3600000 + minutes * 60000 + seconds * 1000
        IN /\ IsInstant(target) /\ diff > 0
           /\ cd.daysEl => IsNumeral(cd.daysText)
           /\ cd.hoursEl => IsNumeral(cd.hoursText)
           /\ cd.minutesEl => IsNumeral(cd.minutesText)
           /\ cd.secondsEl => IsNumeral(cd.secondsText)
           /\ cd.daysEl = ("days" \in cd.slots) /\ cd.hoursEl = ("hours" \in cd.slots)
           /\ cd.minutesEl = ("minutes" \in cd.slots) /\ cd.secondsEl = ("seconds" \in cd.slots)
           /\ days >= 0 /\ hours \in 0..23 /\ minutes \in 0..59 /\ seconds \in 0..59
           /\ shown <= diff /\ diff < shown + 1000
C15_Witness ==
    /\ cd.lastStatus = "live" /\ cd.slots = AllSlots
    /\ cd.dataEndDate - cd.lastNow = 90061001
    /\ cd.daysText = <<0, 1>> /\ cd.hoursText = <<0, 1>>
    /\ cd.minutesText = <<0, 1>> /\ cd.secondsText = <<0, 1>>

\* C16: showEnded is idempotent: from every state of the element, a second
\* call changes nothing the first call left, and the first leaves the fields
\* 00 00 00 00, the ended class set, the handle cleared and no interval of the
\* element active.
C16_ShowEndedAllZero ==
    LET once == showEnded(cd, intervals)
        twice == showEnded(once.w, once.tbl)
    IN /\ twice = once
       /\ once.w.daysText = Zero /\ once.w.hoursText = Zero
       /\ once.w.minutesText = Zero /\ once.w.secondsText = Zero
       /\ once.w.endedClass
       /\ once.w.intervalId = Null
       /\ {x \in once.tbl : x.owner = "cd"} = {}

\* C16 as amended: showEnded is idempotent from every state of the element;
\* it leaves the ended class set, the handle cleared, no interval of the
\* element active, 00 in every field whose slot the element has looked up and
\* found, and the other fields as they were.
C16_ShowEndedIdempotent ==
    LET once == showEnded(cd, intervals)
        twice == showEnded(once.w, once.tbl)
    IN /\ twice = once
       /\ once.w.daysText = (IF cd.daysEl THEN Zero ELSE cd.daysText)
       /\ once.w.hoursText = (IF cd.hoursEl THEN Zero ELSE cd.hoursText)
       /\ once.w.minutesText = (IF cd.minutesEl THEN Zero ELSE cd.minutesText)
       /\ once.w.secondsText = (IF cd.secondsEl THEN Zero ELSE cd.secondsText)
       /\ once.w.endedClass
       /\ once.w.intervalId = Null
       /\ {x \in once.tbl : x.owner = "cd"} = {}
C16_Witness ==
    /\ cd.connected /\ cd.endedClass /\ cd.intervalId = Null
    /\ cd.lastStatus = "ended" /\ cd.lastNow >= IntervalMs
    /\ cd.slots = {"days", "hours", "minutes"}
    /\ cd.daysText = Zero /\ cd.secondsText = <<>> /\ ActiveOf("cd") = {}

\* C19: after any sequence of attach, detach and tick, at most one interval of
\* the element is active, and an active one is the one intervalId names, so
\* a later detach or showEnded cancels it.
C19_NoOrphanTick ==
    /\ Cardinality(ActiveOf("cd")) <= 1
    /\ \A x \in ActiveOf("cd") : x.id = cd.intervalId
C19_Witness ==
    /\ cd.connected /\ Cardinality(ActiveOf("cd")) = 1
    /\ cd.intervalId > 1 /\ cd.lastStatus = "ended"

\* C20: a drop-status holds exactly one document subscription while attached
\* and none while detached.
C20_OneSubscription ==
    listeners = (IF ds.connected THEN 1 ELSE 0)

\* C11: once a submission has completed with transport success, the form is
\* hidden, the success panel is shown and the button stays disabled, and from
\* then on no further request is sent.
Complete == notify.hasForm /\ notify.hasInput /\ notify.hasButton /\ notify.hasSuccess
Succeeded == notify.formDisplay = "none" \/ notify.successDisplay = "flex"
C11_SuccessTerminal ==
    /\ []((Complete /\ Succeeded) =>
            /\ notify.formDisplay = "none"
            /\ notify.successDisplay = "flex"
            /\ notify.btnDisabled)
    /\ [][(Complete /\ Succeeded) => notify'.sent = notify.sent]_vars

\* C12: when a submission has failed at the transport, the button is enabled
\* again and reads what it read before the submission, the form is still
\* displayed and the success panel is not.
C12_FailureRestores ==
    (Complete /\ notify.outcome = "rejected" /\ notify.inflight = 0 /\ ~Succeeded) =>
        /\ ~notify.btnDisabled
        /\ notify.btnText = notify.origLabel
        /\ notify.formDisplay # "none"
        /\ notify.successDisplay # "flex"

\* C13: whichever of the expected elements are missing, attach and submit
\* complete without raising an error.
C13_MissingElementsSkipped == ~notify.threw

\* C18: a submit with an empty or missing email sends nothing and changes
\* nothing; while a request is in flight the button is disabled and reads
\* Submitting..., and at most one request is in flight.
C18_OneInFlight ==
    /\ [](notify.inflight > 0 => (notify.btnDisabled /\ notify.btnText = "Submitting..."))
    /\ [](notify.inflight <= 1)
    /\ [][(notify'.submits # notify.submits /\ notify'.lastEmail = "") =>
            /\ notify'.sent = notify.sent
            /\ notify'.btnDisabled = notify.btnDisabled
            /\ notify'.btnText = notify.btnText
            /\ notify'.formDisplay = notify.formDisplay
            /\ notify'.successDisplay = notify.successDisplay]_vars

\* C14: a button click or form submission that has shown the indicator is
\* followed by a hide no later than maxLoadTime after the show.
C14_HiddenWithinMax ==
    \A t \in pre.pending : now <= t + maxLoadTime

\* C14 as amended: the hide follows no later than maxLoadTime + minLoadTime +
\* fadeDelay after the show, timeouts running when they are due.
C14_HiddenWithinMaxPlusDelay ==
    /\ \A t \in pre.pending : now <= t + maxLoadTime + minLoadTime + fadeDelay
    /\ pre.hiddenAfter <= maxLoadTime + minLoadTime + fadeDelay
C14_Witness ==
    /\ pre.hidden /\ pre.pending = {}
    /\ pre.hiddenAfter = maxLoadTime + minLoadTime + fadeDelay

\* C17: an indicator shown by showPreloader is not hidden before minLoadTime
\* has passed since that show.
C17_MinimumDisplay ==
    [][(pre.shownByCall /\ ~pre.hidden /\ pre'.hidden) =>
         now' >= pre.showTime + minLoadTime]_vars

====
